---- MODULE Spec2Model ----
(***************************************************************************)
(* A model of the config-layers resolution engine (LayeredConfig).         *)
(*                                                                         *)
(* JavaScript values are uniform records [t, s, n, f]:                     *)
(*   t = "undef" | "null" | "bool" | "num" | "str" | "fn"  a primitive     *)
(*       (s is the text of a bool/str/fn, n the value of a num),           *)
(*   t = "ref"   a reference to the heap object at address n,              *)
(*   t = "obj" | "arr"  a literal tree (f = its fields in creation order), *)
(*       used for what the caller writes and for what a query returns.     *)
(* Objects live in a heap because deepMerge stores a layer's arrays in the *)
(* flattened snapshot by reference.  A string (a key, a property name, a   *)
(* layer name) is a sequence of tokens in which every dot is the token     *)
(* "." and every other token is a dot-free piece of text.                  *)
(***************************************************************************)
EXTENDS Integers, Sequences, FiniteSets, TLC

VARIABLES heap, views, last

vars == <<heap, views, last>>

\* the element of a one-element set.  Only({e : x \in {v}}) is
\* LET x == v IN e with v evaluated once, which keeps the heap-threading
\* recursions below linear
Only(S) == CHOOSE x \in S : TRUE

(***************************************************************************)
(* Values                                                                  *)
(***************************************************************************)
Val(t, s, n) == [t |-> t, s |-> s, n |-> n, f |-> <<>>]

Undef == Val("undef", "", 0)

Null == Val("null", "", 0)

Str(s) == Val("str", s, 0)

Num(n) == Val("num", "", n)

Bool(b) == Val("bool", IF b THEN "true" ELSE "false", 0)

Fn(name) == Val("fn", name, 0)

Ref(a) == Val("ref", "", a)

\* a literal object / array, fields in creation order
Obj(fields) == [t |-> "obj", s |-> "", n |-> 0, f |-> fields]

Arr(fields) == [t |-> "arr", s |-> "", n |-> 0, f |-> fields]

\* Object.freeze(literal): the object itself, not what it holds
Frozen(tree) == [tree EXCEPT !.s = "frozen"]

\* one field of a literal; the name is a token sequence
P(k, v) == [k |-> k, v |-> v]

\* ToBoolean
Truthy(v) ==
    CASE v.t \in {"undef", "null"} -> FALSE
      [] v.t = "bool" -> v.s = "true"
      [] v.t = "num" -> v.n # 0
      [] v.t = "str" -> v.s # ""
      [] OTHER -> TRUE

\* typeof v === 'object'   (null included, functions excluded)
TypeofObject(v) == v.t \in {"null", "ref", "obj", "arr"}

(***************************************************************************)
(* Heap objects: [kind, frozen, props], props in creation order            *)
(***************************************************************************)
EmptyObject == [kind |-> "obj", frozen |-> FALSE, props |-> <<>>]

\* the tokens that are canonical array indices, IndexTok[i] being index i-1
IndexTok == <<"0", "1", "2">>

IsIndex(k) == Len(k) = 1 /\ \E i \in 1..Len(IndexTok) : IndexTok[i] = k[1]

HasOwn(o, k) == \E i \in 1..Len(o.props) : o.props[i].k = k

OwnValue(o, k) == o.props[CHOOSE i \in 1..Len(o.props) : o.props[i].k = k].v

\* an array's length: one more than its highest index
ArrLen(o) ==
    LET present == {i \in 1..Len(IndexTok) : HasOwn(o, <<IndexTok[i]>>)}
    IN IF present = {} THEN 0 ELSE CHOOSE i \in present : \A j \in present : j <= i

\* the names every object inherits (Object.prototype, Array.prototype)
ProtoKeys == {<<"constructor">>}

\* `k in o`
HasProp(o, k) ==
    \/ HasOwn(o, k)
    \/ (o.kind = "arr" /\ k = <<"length">>)
    \/ k \in ProtoKeys

\* `o[k]`
GetProp(o, k) ==
    IF HasOwn(o, k) THEN OwnValue(o, k)
    ELSE IF o.kind = "arr" /\ k = <<"length">> THEN Num(ArrLen(o))
    ELSE IF k \in ProtoKeys THEN Fn(IF o.kind = "arr" THEN "Array" ELSE "Object")
    ELSE Undef

\* own enumerable string keys in the language's order: indices ascending,
\* then the other names in creation order (for-in over own keys, spread,
\* Object.keys, Object.entries)
EnumKeys(o) ==
    LET own == [i \in 1..Len(o.props) |-> o.props[i].k]
        idx == [i \in 1..Len(IndexTok) |-> <<IndexTok[i]>>]
        Present(k) == HasOwn(o, k)
        Named(k) == ~IsIndex(k)
    IN SelectSeq(idx, Present) \o SelectSeq(own, Named)

\* `o[k] = v` on an extensible object
PutProp(o, k, v) ==
    IF HasOwn(o, k)
    THEN [o EXCEPT !.props =
            [i \in 1..Len(o.props) |->
                IF o.props[i].k = k THEN [k |-> k, v |-> v] ELSE o.props[i]]]
    ELSE [o EXCEPT !.props = Append(o.props, [k |-> k, v |-> v])]

(***************************************************************************)
(* The caller's literals become heap objects; a query's result is read     *)
(* back as a literal.                                                      *)
(***************************************************************************)
RECURSIVE Alloc(_, _)
RECURSIVE AllocFields(_, _, _)
\* [h, v]: the heap with the literal's objects added, and the value for it
Alloc(h, tree) ==
    IF tree.t \notin {"obj", "arr"} THEN [h |-> h, v |-> tree]
    ELSE Only({ [h |-> Append(r.h, [kind |-> tree.t, frozen |-> tree.s = "frozen",
                                    props |-> r.props]),
                 v |-> Ref(Len(r.h) + 1)]
                : r \in {AllocFields(h, tree.f, <<>>)} })

AllocFields(h, fs, acc) ==
    IF fs = <<>> THEN [h |-> h, props |-> acc]
    ELSE Only({ AllocFields(r.h, Tail(fs), Append(acc, [k |-> Head(fs).k, v |-> r.v]))
                : r \in {Alloc(h, Head(fs).v)} })

RECURSIVE Reify(_, _)
\* the value as a literal, fields in enumeration order
Reify(h, v) ==
    IF v.t # "ref" THEN v
    ELSE Only({ [t |-> o.kind, s |-> "", n |-> 0,
                 f |-> [i \in 1..Len(EnumKeys(o)) |->
                          Only({ [k |-> k, v |-> Reify(h, w)]
                                 : k \in {EnumKeys(o)[i]}, w \in {OwnValue(o, EnumKeys(o)[i])} })]]
                : o \in {h[v.n]} })

(***************************************************************************)
(* splitDotExceptDouble                                                    *)
(***************************************************************************)
\* a "." with no "." before it, whatever follows
IsSeparatorNoLookahead(str, i) ==
    /\ str[i] = "."
    /\ (i = 1 \/ str[i - 1] # ".")

\* a "." with no "." before or after it: (?<!\.)\.(?!\.)
IsSeparator(str, i) ==
    /\ str[i] = "."
    /\ (i = 1 \/ str[i - 1] # ".")
    /\ (i = Len(str) \/ str[i + 1] # ".")

RECURSIVE SplitFrom(_, _, _, _)
SplitFrom(str, i, cur, acc) ==
    IF i > Len(str) THEN Append(acc, cur)
    ELSE IF IsSeparator(str, i) THEN SplitFrom(str, i + 1, <<>>, Append(acc, cur))
    ELSE SplitFrom(str, i + 1, Append(cur, str[i]), acc)

\* part.replace(/\.{2,}/gu, match => match.slice(1)): every run of two or
\* more dots loses its first dot
DropEscape(part) ==
    LET Kept(i) == ~(/\ part[i] = "."
                     /\ (i = 1 \/ part[i - 1] # ".")
                     /\ i < Len(part)
                     /\ part[i + 1] = ".")
        RECURSIVE Build(_)
        Build(i) == IF i > Len(part) THEN <<>>
                    ELSE (IF Kept(i) THEN <<part[i]>> ELSE <<>>) \o Build(i + 1)
    IN Build(1)

splitDotExceptDouble(str) ==
    LET parts == SplitFrom(str, 1, <<>>, <<>>)
    IN [i \in 1..Len(parts) |-> DropEscape(parts[i])]

(***************************************************************************)
(* deepMerge, deepFreeze and the constructor                               *)
(***************************************************************************)
TypeError == "TypeError"

\* `target[key] = v` in strict mode: a primitive target and a frozen target
\* both raise TypeError.  [h, err]
Assign(h, target, key, v) ==
    IF target.t # "ref" \/ h[target.n].frozen
    THEN [h |-> h, err |-> TypeError]
    ELSE [h |-> [h EXCEPT ![target.n] = PutProp(h[target.n], key, v)], err |-> ""]

\* typeof value === 'object' && value !== null && !Array.isArray(value)
IsPlainObject(h, value) == value.t = "ref" /\ h[value.n].kind = "obj"

\* the acceptance test of deepMerge letting every value through
MergeSkipsNothing(value, options) == FALSE

\* if (value === null && !options?.acceptNull) continue;
\* if (value === undefined && !options?.acceptUndefined) continue;
MergeSkips(value, options) ==
    \/ (value = Null /\ ~options.acceptNull)
    \/ (value = Undef /\ ~options.acceptUndefined)

RECURSIVE deepMerge(_, _, _, _)
RECURSIVE MergeKeys(_, _, _, _, _)
\* merges the object `source` into `target` in place.  [h, err]
deepMerge(h, target, source, options) ==
    MergeKeys(h, target, source, EnumKeys(h[source.n]), options)

MergeKeys(h, target, source, keys, options) ==
    IF keys = <<>> THEN [h |-> h, err |-> ""]
    ELSE Only({
      IF MergeSkips(value, options)
      THEN MergeKeys(h, target, source, Tail(keys), options)
      ELSE IF IsPlainObject(h, value)
      THEN
        \* `key in target` raises TypeError when target is a primitive
        IF target.t # "ref" THEN [h |-> h, err |-> TypeError]
        ELSE Only({
          IF r1.err # "" THEN r1
          ELSE Only({ IF r2.err # "" THEN r2
                      ELSE MergeKeys(r2.h, target, source, Tail(keys), options)
                      : r2 \in {deepMerge(r1.h, GetProp(r1.h[target.n], key),
                                          value, options)} })
          : r1 \in {IF ~HasProp(h[target.n], key)
                    THEN Assign(Append(h, EmptyObject), target, key, Ref(Len(h) + 1))
                    ELSE [h |-> h, err |-> ""]} })
      ELSE Only({ IF r1.err # "" THEN r1
                  ELSE MergeKeys(r1.h, target, source, Tail(keys), options)
                  : r1 \in {Assign(h, target, key, value)} })
      : key \in {Head(keys)}, value \in {OwnValue(h[source.n], Head(keys))} })

\* Object.getOwnPropertyNames: the enumerable names and an array's length
OwnPropertyNames(o) ==
    EnumKeys(o) \o (IF o.kind = "arr" THEN << <<"length">> >> ELSE <<>>)

RECURSIVE deepFreeze(_, _)
RECURSIVE FreezeProps(_, _, _)
\* the heap after deepFreeze(obj)
deepFreeze(h, obj) ==
    IF Truthy(obj) /\ obj.t = "ref" /\ ~h[obj.n].frozen
    THEN [FreezeProps(h, obj, OwnPropertyNames(h[obj.n])) EXCEPT ![obj.n].frozen = TRUE]
    ELSE h

FreezeProps(h, obj, names) ==
    IF names = <<>> THEN h
    ELSE Only({ FreezeProps(h1, obj, Tail(names))
                : h1 \in { Only({ IF Truthy(value) /\ TypeofObject(value)
                                  THEN deepFreeze(h, value) ELSE h
                                  : value \in {GetProp(h[obj.n], Head(names))} }) } })

\* the options a view has when the caller gives none
DefaultOptions ==
    [notFoundHandler |-> "default", freeze |-> TRUE,
     acceptNull |-> FALSE, acceptUndefined |-> FALSE]

\* {...defaults, ...patch}: what the base set is forgotten
MergeOptionsFromDefaults(base, patch) ==
    [o \in DOMAIN base |-> IF o \in DOMAIN patch THEN patch[o] ELSE DefaultOptions[o]]

\* {...base, ...patch}: patch is a function on the option names it sets
MergeOptions(base, patch) ==
    [o \in DOMAIN base |-> IF o \in DOMAIN patch THEN patch[o] ELSE base[o]]

\* Map.prototype.set: a new key goes last, a known key keeps its place
MapSet(m, name, frag) ==
    IF \E i \in 1..Len(m) : m[i].name = name
    THEN [i \in 1..Len(m) |->
            IF m[i].name = name THEN [name |-> name, frag |-> frag] ELSE m[i]]
    ELSE Append(m, [name |-> name, frag |-> frag])

RECURSIVE MapFrom(_, _)
\* new Map(layers.map(l => [l.name, l.config]))
MapFrom(entries, m) ==
    IF entries = <<>> THEN m
    ELSE MapFrom(Tail(entries), MapSet(m, Head(entries).name, Head(entries).frag))

RECURSIVE Flatten(_, _, _, _)
\* the reduce of the constructor: deepMerge of every layer into acc.  [h, err]
Flatten(h, acc, layers, options) ==
    IF layers = <<>> THEN [h |-> h, err |-> ""]
    ELSE Only({ IF r.err # "" THEN r
                ELSE Flatten(r.h, acc, Tail(layers), options)
                : r \in {deepMerge(h, acc, Head(layers).frag, options)} })

\* Array.prototype.reverse
Reverse(seq) == [i \in 1..Len(seq) |-> seq[Len(seq) + 1 - i]]

\* the constructor folding the layers highest precedence first
ConstructHighestFirst(h, layers, patch) ==
    LET options == MergeOptions(DefaultOptions, patch)
        acc == Ref(Len(h) + 1)
    IN Only({ [h |-> r.h, err |-> r.err,
               view |-> [layers |-> layers, options |-> options, flattened |-> acc]]
              : r \in {Flatten(Append(h, EmptyObject), acc, Reverse(layers), options)} })

\* new LayeredConfig(layers, options).  [h, err, view]
Construct(h, layers, patch) ==
    LET options == MergeOptions(DefaultOptions, patch)
        acc == Ref(Len(h) + 1)
    IN Only({ [h |-> r.h, err |-> r.err,
               view |-> [layers |-> layers, options |-> options, flattened |-> acc]]
              : r \in {Flatten(Append(h, EmptyObject), acc, layers, options)} })

\* LayeredConfig.fromLayers: the instance is built, then deep-frozen when
\* options.freeze.  Of the instance's fields only `flattened` leads to
\* objects that deepFreeze reaches: a Map has no own property names, so the
\* layers' fragments are not visited, and the options hold no objects.
fromLayers(h, entries, patch) ==
    Only({ IF c.err # "" THEN c
           ELSE [c EXCEPT !.h = IF c.view.options.freeze
                                THEN deepFreeze(c.h, c.view.flattened) ELSE c.h]
           : c \in {Construct(h, MapFrom(entries, <<>>), patch)} })

(***************************************************************************)
(* Resolution: __getFlat, __getComplex, __withFallback, the get trap       *)
(***************************************************************************)
\* what the caller's own notFoundHandler returns
HandlerResult == Str("<<not found>>")

\* a query's outcome: the value (in heap h), the error raised ("" for
\* none), and the keys the not-found handler was invoked with
Return(h, v) == [h |-> h, res |-> v, err |-> "", hkeys |-> <<>>]

Throw(h, e) == [h |-> h, res |-> Undef, err |-> e, hkeys |-> <<>>]

\* this.options.notFoundHandler(key): the default handler throws
\* Error(`Key not found: ${key}`), the caller's returns a value
notFoundHandler(h, options, key) ==
    IF options.notFoundHandler = "default"
    THEN [h |-> h, res |-> Undef, err |-> "KeyNotFound", hkeys |-> <<key>>]
    ELSE [h |-> h, res |-> HandlerResult, err |-> "", hkeys |-> <<key>>]

__getFlat(h, view, key, fallback, silent) ==
    LET flattened == h[view.flattened.n]
        value == GetProp(flattened, key)
    IN IF value # Undef \/ (HasProp(flattened, key) /\ view.options.acceptUndefined)
       THEN Return(h, value)
       ELSE IF fallback # Undef THEN Return(h, fallback)
       ELSE IF silent THEN Return(h, Undef)
       ELSE notFoundHandler(h, view.options, key)

RECURSIVE Walk(_, _, _)
\* the nesting loop of __getComplex and __getAll:
\*   if (currentLayer && part in currentLayer) currentLayer = currentLayer[part]
\*   else { found = false; break }
\* `in` raises TypeError on a truthy primitive.  A function has none of the
\* modelled names.  [found, cur, err]
Walk(h, cur, parts) ==
    IF parts = <<>> THEN [found |-> TRUE, cur |-> cur, err |-> ""]
    ELSE IF ~Truthy(cur) THEN [found |-> FALSE, cur |-> cur, err |-> ""]
    ELSE IF cur.t = "fn" THEN [found |-> FALSE, cur |-> cur, err |-> ""]
    ELSE IF cur.t # "ref" THEN [found |-> FALSE, cur |-> cur, err |-> TypeError]
    ELSE IF HasProp(h[cur.n], Head(parts))
         THEN Walk(h, GetProp(h[cur.n], Head(parts)), Tail(parts))
         ELSE [found |-> FALSE, cur |-> cur, err |-> ""]

RECURSIVE Spread(_, _, _)
\* {...resultingObject, ...currentLayer}: the own enumerable properties of
\* src laid over those of o
Spread(o, src, keys) ==
    IF keys = <<>> THEN o
    ELSE Spread(PutProp(o, Head(keys), OwnValue(src, Head(keys))), src, Tail(keys))

\* the acceptance test of __getComplex passing over every plain value
ComplexSkipsPlain(currentLayer, options) ==
    \/ (currentLayer = Null /\ ~options.acceptNull)
    \/ (currentLayer = Undef /\ ~options.acceptUndefined)
    \/ currentLayer.t # "ref"

\* if (currentLayer === null && !this.options.acceptNull) continue;
\* if (currentLayer === undefined && !this.options.acceptUndefined) continue;
ComplexSkips(currentLayer, options) ==
    \/ (currentLayer = Null /\ ~options.acceptNull)
    \/ (currentLayer = Undef /\ ~options.acceptUndefined)

\* typeof currentLayer != 'object' || currentLayer === null: a plain value,
\* which ends the search
IsFinalValue(currentLayer) == ~TypeofObject(currentLayer) \/ currentLayer = Null

RECURSIVE ComplexLoop(_, _, _, _, _)
\* the loop of __getComplex over the layers, highest precedence first.
\* [final, current, obj, err]
ComplexLoop(h, layers, parts, options, resultingObject) ==
    IF layers = <<>>
    THEN [final |-> FALSE, current |-> Undef, obj |-> resultingObject, err |-> ""]
    ELSE Only({
      LET currentLayer == w.cur
      IN
      IF w.err # ""
      THEN [final |-> FALSE, current |-> Undef, obj |-> resultingObject, err |-> w.err]
      ELSE IF ~w.found
      THEN ComplexLoop(h, Tail(layers), parts, options, resultingObject)
      ELSE IF ComplexSkips(currentLayer, options)
      THEN ComplexLoop(h, Tail(layers), parts, options, resultingObject)
      ELSE IF IsFinalValue(currentLayer)
      THEN [final |-> TRUE, current |-> currentLayer, obj |-> resultingObject, err |-> ""]
      ELSE Only({ ComplexLoop(h, Tail(layers), parts, options, o)
                  : o \in {Spread(resultingObject, h[currentLayer.n],
                                  EnumKeys(h[currentLayer.n]))} })
      : w \in {Walk(h, Head(layers).frag, parts)} })

__getComplex(h, view, key, fallback, silent) ==
    LET treeKeyParts == splitDotExceptDouble(key)
        layers == Reverse(view.layers)
    IN Only({ IF r.err # "" THEN Throw(h, r.err)
              ELSE IF r.final THEN Return(h, r.current)
              ELSE IF Len(EnumKeys(r.obj)) > 0
                   THEN Return(Append(h, r.obj), Ref(Len(h) + 1))
              ELSE IF fallback # Undef THEN Return(h, fallback)
              ELSE IF silent THEN Return(h, Undef)
              ELSE notFoundHandler(h, view.options, key)
              : r \in {ComplexLoop(h, layers, treeKeyParts, view.options, EmptyObject)} })

\* the apply trap: view(key, fallback)
__withFallback(h, view, key, fallback) ==
    LET treeKeyParts == splitDotExceptDouble(key)
    IN IF Len(treeKeyParts) = 1
       THEN __getFlat(h, view, treeKeyParts[1], fallback, FALSE)
       ELSE __getComplex(h, view, key, fallback, FALSE)

\* the names the get trap answers with an operation of the view
ReservedNames == {<<"__inspect">>, <<"__derive">>, <<"getAll">>}

\* a get trap that knows no reserved names
ProxyGetNoReserved(h, view, key) ==
    IF key = <<"then">> /\ GetProp(h[view.flattened.n], <<"then">>) = Undef
    THEN Return(h, Undef)
    ELSE LET treeKeyParts == splitDotExceptDouble(key)
         IN IF Len(treeKeyParts) = 1
            THEN __getFlat(h, view, treeKeyParts[1], Undef, FALSE)
            ELSE __getComplex(h, view, key, Undef, FALSE)

\* a get trap that treats `then` as any key
ProxyGetNoThen(h, view, key) ==
    IF key \in ReservedNames THEN Return(h, Fn(key[1]))
    ELSE LET treeKeyParts == splitDotExceptDouble(key)
         IN IF Len(treeKeyParts) = 1
            THEN __getFlat(h, view, treeKeyParts[1], Undef, FALSE)
            ELSE __getComplex(h, view, key, Undef, FALSE)

\* the get trap: view.key and view[key]
ProxyGet(h, view, key) ==
    IF key \in ReservedNames THEN Return(h, Fn(key[1]))
    ELSE IF key = <<"then">> /\ GetProp(h[view.flattened.n], <<"then">>) = Undef
    THEN Return(h, Undef)
    ELSE LET treeKeyParts == splitDotExceptDouble(key)
         IN IF Len(treeKeyParts) = 1
            THEN __getFlat(h, view, treeKeyParts[1], Undef, FALSE)
            ELSE __getComplex(h, view, key, Undef, FALSE)

\* the has trap: key in view.  [res, err]
ProxyHas(h, view, key) ==
    Only({ [res |-> /\ val.err = ""
                    /\ val.res # Undef
                    /\ (val.res # Null \/ view.options.acceptNull),
            err |-> val.err]
           : val \in {IF Len(splitDotExceptDouble(key)) = 1
                      THEN __getFlat(h, view, splitDotExceptDouble(key)[1], Undef, TRUE)
                      ELSE __getComplex(h, view, key, Undef, TRUE)} })

(***************************************************************************)
(* __getAll, __inspect, the ownKeys trap                                   *)
(***************************************************************************)
\* if (currentLayer === null && !this.options.acceptNull) continue;
\* if (currentLayer === undefined && !this.options.acceptUndefined) continue;
GetAllSkips(currentLayer, options) ==
    \/ (currentLayer = Null /\ ~options.acceptNull)
    \/ (currentLayer = Undef /\ ~options.acceptUndefined)

RECURSIVE GetAllLoop(_, _, _, _, _)
\* [results, err]
GetAllLoop(h, layers, parts, options, results) ==
    IF layers = <<>> THEN [results |-> results, err |-> ""]
    ELSE Only({
      IF w.err # "" THEN [results |-> results, err |-> w.err]
      ELSE IF ~w.found THEN GetAllLoop(h, Tail(layers), parts, options, results)
      ELSE IF GetAllSkips(w.cur, options)
      THEN GetAllLoop(h, Tail(layers), parts, options, results)
      ELSE GetAllLoop(h, Tail(layers), parts, options,
                      Append(results, [layer |-> Head(layers).name, value |-> w.cur]))
      : w \in {Walk(h, Head(layers).frag, parts)} })

__getAll(h, view, key) ==
    GetAllLoop(h, Reverse(view.layers), splitDotExceptDouble(key), view.options, <<>>)

\* resolved.source when no layer supplies the key: the empty string
NoSource == [sym |-> FALSE, s |-> <<>>]

\* if (value === null && !this.options.acceptNull) isPresent = false;
\* if (value === undefined && !this.options.acceptUndefined) isPresent = false;
InspectRejects(value, options) ==
    \/ (value = Null /\ ~options.acceptNull)
    \/ (value = Undef /\ ~options.acceptUndefined)

RECURSIVE InspectFlat(_, _, _, _, _, _)
\* the loop of __inspect for a key of one segment; the layer is probed with
\* the key as given, not with the parsed segment.  [resolved, layers]
InspectFlat(h, precedence, key, options, found, result) ==
    IF precedence = <<>> THEN result
    ELSE
      LET layer == h[Head(precedence).frag.n]
          has == HasProp(layer, key)
          value == IF has THEN GetProp(layer, key) ELSE Undef
          isPresent == has /\ ~InspectRejects(value, options)
          isActive == IF isPresent THEN ~found ELSE FALSE
          entry == [layer |-> Head(precedence).name,
                    value |-> IF isPresent THEN value ELSE Undef,
                    isPresent |-> isPresent, isActive |-> isActive]
          resolved == IF isActive /\ ~found
                      THEN [value |-> value, source |-> Head(precedence).name]
                      ELSE result.resolved
      IN Only({ InspectFlat(h, Tail(precedence), key, options, f, r)
                : f \in {found \/ isActive},
                  r \in {[resolved |-> resolved, layers |-> Append(result.layers, entry)]} })

RECURSIVE InspectWalk(_, _, _)
\* if (current && typeof current === "object" && part in current)
InspectWalk(h, cur, parts) ==
    IF parts = <<>> THEN [found |-> TRUE, cur |-> cur]
    ELSE IF Truthy(cur) /\ cur.t = "ref" /\ HasProp(h[cur.n], Head(parts))
         THEN InspectWalk(h, GetProp(h[cur.n], Head(parts)), Tail(parts))
         ELSE [found |-> FALSE, cur |-> cur]

RECURSIVE InspectComplex(_, _, _, _, _)
\* the loop of __inspect for a key of several segments
InspectComplex(h, precedence, keyParts, options, result) ==
    IF precedence = <<>> THEN result
    ELSE
      LET w == InspectWalk(h, Head(precedence).frag, keyParts)
          found == w.found /\ ~InspectRejects(w.cur, options)
          current == IF found THEN w.cur ELSE Undef
          isActive == found /\ result.resolved.value = Undef
          entry == [layer |-> Head(precedence).name, value |-> current,
                    isPresent |-> found, isActive |-> isActive]
          resolved == IF isActive
                      THEN [value |-> current, source |-> Head(precedence).name]
                      ELSE result.resolved
      IN Only({ InspectComplex(h, Tail(precedence), keyParts, options, r)
                : r \in {[resolved |-> resolved, layers |-> Append(result.layers, entry)]} })

__inspect(h, view, key) ==
    LET keyParts == splitDotExceptDouble(key)
        precedence == Reverse(view.layers)
        empty == [resolved |-> [value |-> Undef, source |-> NoSource], layers |-> <<>>]
    IN IF Len(keyParts) = 1
       THEN InspectFlat(h, precedence, key, view.options, FALSE, empty)
       ELSE InspectComplex(h, precedence, keyParts, view.options, empty)

RECURSIVE AddKeys(_, _, _, _)
\* for (const key in layer) ... keys.add(key)
AddKeys(o, names, options, keys) ==
    IF names = <<>> THEN keys
    ELSE LET value == OwnValue(o, Head(names))
             skip == \/ (value = Null /\ ~options.acceptNull)
                     \/ (value = Undef /\ ~options.acceptUndefined)
                     \/ \E i \in 1..Len(keys) : keys[i] = Head(names)
         IN Only({ AddKeys(o, Tail(names), options, ks)
                   : ks \in {IF skip THEN keys ELSE Append(keys, Head(names))} })

RECURSIVE OwnKeysLoop(_, _, _, _)
OwnKeysLoop(h, layers, options, keys) ==
    IF layers = <<>> THEN keys
    ELSE Only({ OwnKeysLoop(h, Tail(layers), options, ks)
                : ks \in {AddKeys(h[Head(layers).frag.n],
                                  EnumKeys(h[Head(layers).frag.n]), options, keys)} })

\* the layers scanned from the highest precedence to the lowest
ProxyOwnKeysHighestFirst(h, view) ==
    OwnKeysLoop(h, Reverse(view.layers), view.options, <<>>)

\* the ownKeys trap: Object.keys(view)
ProxyOwnKeys(h, view) == OwnKeysLoop(h, view.layers, view.options, <<>>)

(***************************************************************************)
(* __derive                                                                *)
(***************************************************************************)
\* a layer name: a string (token sequence) or a symbol
Name(s) == [sym |-> FALSE, s |-> s]

\* the layer name Symbol(s)
Symbol(s) == [sym |-> TRUE, s |-> s]

\* Object.entries(newLayers): the string-named properties only, the names
\* that are array indices first in ascending order, then the others in
\* creation order
ObjectEntries(o) ==
    LET idx == [i \in 1..Len(IndexTok) |-> Name(<<IndexTok[i]>>)]
        Present(n) == \E j \in 1..Len(o) : o[j].name = n
        present == SelectSeq(idx, Present)
        Named(e) == ~e.name.sym /\ ~IsIndex(e.name.s)
    IN [i \in 1..Len(present) |->
            o[CHOOSE j \in 1..Len(o) : o[j].name = present[i]]]
       \o SelectSeq(o, Named)

\* view.__derive(nameOrOpts, layer, opts).  The call is
\* [isOpts, name, layer, patch]: isOpts when the first argument is an options
\* object (patch), otherwise it is the name; layer is Undef when not given;
\* patch is the empty function when no options are given.  [h, err, view]
__derive(h, view, call) ==
    LET newLayers == view.layers
    IN IF call.isOpts /\ call.layer = Undef
       THEN fromLayers(h, ObjectEntries(newLayers),
                       MergeOptions(view.options, call.patch))
       ELSE IF ~call.isOpts /\ ~call.name.sym /\ call.layer # Undef
       THEN fromLayers(h, ObjectEntries(MapSet(newLayers, call.name, call.layer)),
                       MergeOptions(view.options, call.patch))
       ELSE fromLayers(h, ObjectEntries(newLayers),
                       MergeOptions(view.options, call.patch))

(***************************************************************************)
(* What the callers supply                                                 *)
(***************************************************************************)
\* the most layers given to fromLayers
MaxLayers == 3

\* the most views a run holds: the one created and those derived from it
MaxViews == 3

A == <<"a">>

B == <<"b">>

X == <<"x">>

Y == <<"y">>

\* the literal {k: v}
O1(k, v) == Obj(<<P(k, v)>>)

\* layer fragments as the caller writes them
Fragments ==
    << O1(A, Str("s1")),
       O1(A, O1(B, Str("s2"))),
       O1(A, O1(B, Obj(<<P(X, Str("x3")), P(Y, Str("y3"))>>))),
       O1(A, O1(B, Obj(<<P(X, Null), P(Y, Str("y4"))>>))),
       O1(A, O1(B, Undef)),
       Obj(<<P(A, Null), P(<<"a", ".", "b">>, Str("s6"))>>),
       O1(A, Arr(<<P(<<"0">>, Str("e1"))>>)),
       O1(A, O1(<<"k">>, Str("k8"))),
       O1(A, Frozen(Arr(<<P(<<"0">>, O1(<<"k">>, Str("k9")))>>))),
       Obj(<<P(<<"getAll">>, Str("g10")), P(<<"then">>, Str("t10"))>>),
       Obj(<<P(<<"then">>, Null), P(<<"__inspect">>, Str("i11"))>>),
       O1(<<"then">>, Undef),
       O1(A, O1(B, Arr(<<P(<<"0">>, Str("e1"))>>))),
       O1(A, O1(B, Arr(<<P(<<"0">>, Str("f1")), P(<<"1">>, Str("f2"))>>))) >>

\* the fragments of the resolution runs
ResolveFragments == 1..6

\* the stacks of n layers of the resolution runs: no fragment twice
Stacks(n) ==
    {frags \in [1..n -> ResolveFragments] : \A i, j \in 1..n : frags[i] = frags[j] => i = j}

\* the fragments of the runs on special names, and their stacks
NameFragments == {1, 10, 11, 12}

NameStacks(n) ==
    {frags \in [1..n -> NameFragments] : \A i, j \in 1..n : frags[i] = frags[j] => i = j}

\* the fragments of the runs on nested arrays, and their stacks
ArrayFragments == {2, 5, 13, 14}

ArrayStacks(n) ==
    {frags \in [1..n -> ArrayFragments] : \A i, j \in 1..n : frags[i] = frags[j] => i = j}

\* the fragments of the runs on enumerated keys, and their stacks
KeyFragments == {1, 2, 6, 12}

KeyStacks(n) ==
    {frags \in [1..n -> KeyFragments] : \A i, j \in 1..n : frags[i] = frags[j] => i = j}

\* the layer stacks the derivation runs start from, and the fragments they add
Roots == << <<7>>, <<1>>, <<1, 7>>, <<7, 7>> >>

DeriveFragments == {1, 8}

\* the layer stacks of the freezing runs
FreezeRoots == << <<2>>, <<7>>, <<9>>, <<2, 7>>, <<3, 2>> >>

\* the names of the layers given to fromLayers, lowest precedence first
LayerNames ==
    << <<Name(<<"base">>), Name(<<"env">>), Name(<<"user">>), Name(<<"site">>)>>,
       <<Name(<<"base">>), Name(<<"1">>), Name(<<"user">>), Name(<<"site">>)>>,
       <<Name(<<"base">>), Symbol(<<"tag">>), Name(<<"user">>), Name(<<"site">>)>> >>

\* the names given to __derive: a layer's, a new one, a new index-like one
DeriveNames == {Name(<<"base">>), Name(<<"feature">>), Name(<<"0">>)}

\* option patches: the empty one, and one per option
NoPatch == [o \in {} |-> TRUE]

Patches ==
    << NoPatch,
       [acceptNull |-> TRUE],
       [acceptUndefined |-> TRUE],
       [notFoundHandler |-> "custom"],
       [freeze |-> FALSE],
       [acceptNull |-> FALSE] >>

ResolvePatches == 1..4

RootPatches == {1, 5}

DerivePatches == {4}

\* the patches of the option runs
OptionPatches == {2, 4, 5, 6}

FreezePatches == {1, 5}

\* the longest key parsed, in characters
MaxKeyLen == 7

\* the characters of the keys parsed
KeyChars == {"a", "b", "."}

\* the keys whose parse is documented
DocumentedKeys ==
    { <<"a", ".", "b", ".", "c">>, <<"a", ".", ".", "b", ".", "c">>,
      <<"a", ".", ".", ".", "b", ".", "c">>, <<>>, <<".", "a", ".", "b">>,
      <<"a", ".", "b", ".">>, <<".", ".">> }

\* the keys parsed: every string of up to MaxKeyLen characters, the
\* documented keys, and a symbol
ParseKeys ==
    LET RECURSIVE Strings(_)
        Strings(n) ==
            IF n = 0 THEN {<<>>}
            ELSE Only({ shorter \cup {Append(str, c) : str \in shorter, c \in KeyChars}
                        : shorter \in {Strings(n - 1)} })
    IN {Name(str) : str \in Strings(MaxKeyLen) \cup DocumentedKeys}
           \cup {Symbol(<<"a", ".", "b">>)}

\* the keys the layers of the runs on enumerated keys hold, and one they lack
EnumeratedKeys == {A, <<"a", ".", "b">>, <<"then">>, <<"n">>}

\* the keys asked for
ResolveKeys ==
    { A, <<"a", ".", "b">>, <<"a", ".", "b", ".", "x">>, <<"a", ".", ".", "b">>, <<"n">>,
      <<"constructor">> }

DeriveKeys == { A, <<"a", ".", "k">> }

\* the special names, and a plain key
NameKeys == { <<"__inspect">>, <<"__derive">>, <<"getAll">>, <<"then">>, A }

FreezeKeys == { A, <<"a", ".", "b">> }

\* the keys of the view the caller writes, deletes or defines: one that some
\* layer holds, one that none holds
WrittenKeys == { A, <<"foo">> }

\* the fields the caller assigns to
AssignedFields == { B, <<"w">> }

\* where in a fragment the caller assigns: the fragment itself, its field a
AssignedPaths == { <<>>, <<A>> }

\* the fallbacks given in call style; Undef is a call without one
Fallbacks == { Undef, Str("fb"), Null }

RECURSIVE AllocLayers(_, _, _, _, _)
\* the caller's layer list [{name, config}, ...] with its fragments on the heap
AllocLayers(h, names, frags, i, acc) ==
    IF i > Len(frags) THEN [h |-> h, entries |-> acc]
    ELSE Only({ AllocLayers(r.h, names, frags, i + 1,
                            Append(acc, [name |-> names[i], frag |-> r.v]))
                : r \in {Alloc(h, Fragments[frags[i]])} })

(***************************************************************************)
(* The machine.  heap holds every object; views[i] is the outcome of the   *)
(* i-th fromLayers (ok = FALSE when it raised and returned no view); last  *)
(* is the latest operation with what it returned.  A query changes         *)
(* neither heap nor views, so a run asks its query last: every query on    *)
(* every reachable set of views is still reached.  The caller's            *)
(* assignments to fragments and results close a run in the same way.       *)
(***************************************************************************)
NoView == [ok |-> FALSE, layers |-> <<>>, options |-> DefaultOptions, flattened |-> Undef]

\* views after fromLayers returned r
Handed(r) ==
    Append(views, IF r.err = ""
                  THEN [ok |-> TRUE, layers |-> r.view.layers,
                        options |-> r.view.options, flattened |-> r.view.flattened]
                  ELSE NoView)

Init ==
    /\ heap = <<>>
    /\ views = <<>>
    /\ last = [op |-> "none"]

\* no query has been asked yet and some view exists
Ready == last.op \in {"create", "derive"}

\* LayeredConfig.fromLayers(layers, options)
Create(names, frags, patch) ==
    /\ last.op = "none"
    /\ \E a \in {AllocLayers(heap, names, frags, 1, <<>>)} :
         \E r \in {fromLayers(a.h, a.entries, patch)} :
            /\ heap' = r.h
            /\ views' = Handed(r)
            /\ last' = [op |-> "create", err |-> r.err]

\* view.__derive(...) in its three forms
Derive(i, isOpts, name, lit, patch) ==
    /\ Ready
    /\ Len(views) < MaxViews
    /\ i \in DOMAIN views
    /\ views[i].ok
    /\ \E a \in {Alloc(heap, lit)} :
         \E r \in {__derive(a.h, views[i], [isOpts |-> isOpts, name |-> name,
                                            layer |-> a.v, patch |-> patch])} :
            /\ heap' = r.h
            /\ views' = Handed(r)
            /\ last' = [op |-> "derive", src |-> i, new |-> Len(views) + 1,
                        isOpts |-> isOpts, name |-> name, layer |-> a.v,
                        patch |-> patch, err |-> r.err]

\* view.key, view[key]
Get(i, key) ==
    /\ Ready
    /\ i \in DOMAIN views
    /\ views[i].ok
    /\ \E r \in {ProxyGet(heap, views[i], key)} :
         last' = [op |-> "get", view |-> i, key |-> key, fallback |-> Undef,
                  res |-> Reify(r.h, r.res), err |-> r.err, hkeys |-> r.hkeys]
    /\ UNCHANGED <<heap, views>>

\* view(key, fallback)
Call(i, key, fallback) ==
    /\ Ready
    /\ i \in DOMAIN views
    /\ views[i].ok
    /\ \E r \in {__withFallback(heap, views[i], key, fallback)} :
         last' = [op |-> "call", view |-> i, key |-> key, fallback |-> fallback,
                  res |-> Reify(r.h, r.res), err |-> r.err, hkeys |-> r.hkeys]
    /\ UNCHANGED <<heap, views>>

\* what __inspect returned, its values as literals
InspectResult(h, r) ==
    [resolved |-> [value |-> Reify(h, r.resolved.value), source |-> r.resolved.source],
     layers |-> [j \in 1..Len(r.layers) |->
                   [r.layers[j] EXCEPT !.value = Reify(h, r.layers[j].value)]]]

\* view.__inspect(key)
Inspect(i, key) ==
    /\ Ready
    /\ i \in DOMAIN views
    /\ views[i].ok
    /\ \E r \in {__inspect(heap, views[i], key)} :
         last' = [op |-> "inspect", view |-> i, key |-> key,
                  result |-> InspectResult(heap, r)]
    /\ UNCHANGED <<heap, views>>

\* view.getAll(key)
GetAll(i, key) ==
    /\ Ready
    /\ i \in DOMAIN views
    /\ views[i].ok
    /\ \E r \in {__getAll(heap, views[i], key)} :
         last' = [op |-> "getAll", view |-> i, key |-> key, err |-> r.err,
                  results |-> [j \in 1..Len(r.results) |->
                                 [layer |-> r.results[j].layer,
                                  value |-> Reify(heap, r.results[j].value)]]]
    /\ UNCHANGED <<heap, views>>

\* Object.keys(view)
OwnKeys(i) ==
    /\ Ready
    /\ i \in DOMAIN views
    /\ views[i].ok
    /\ last' = [op |-> "keys", view |-> i, keys |-> ProxyOwnKeys(heap, views[i])]
    /\ UNCHANGED <<heap, views>>

\* key in view
Has(i, key) ==
    /\ Ready
    /\ i \in DOMAIN views
    /\ views[i].ok
    /\ \E r \in {ProxyHas(heap, views[i], key)} :
         last' = [op |-> "has", view |-> i, key |-> key, res |-> r.res, err |-> r.err]
    /\ UNCHANGED <<heap, views>>

RECURSIVE Reach(_, _)
\* the objects reachable from a value
Reach(h, v) ==
    IF v.t # "ref" THEN {}
    ELSE {v.n} \cup UNION {Reach(h, h[v.n].props[i].v) : i \in 1..Len(h[v.n].props)}

RECURSIVE PathValue(_, _, _)
\* the caller's expression v.p1.p2...
PathValue(h, v, path) ==
    IF path = <<>> THEN v
    ELSE IF v.t = "ref" THEN PathValue(h, GetProp(h[v.n], Head(path)), Tail(path))
    ELSE Undef

\* the layers' fragments as literals
FragmentsOf(h, view) == [j \in 1..Len(view.layers) |-> Reify(h, view.layers[j].frag)]

\* the caller runs `target[field] = 'w'` in strict mode
AssignTo(i, via, target, h, field) ==
    \E r \in {Assign(h, target, field, Str("w"))} :
        /\ heap' = r.h
        /\ last' = [op |-> "assign", view |-> i, via |-> via, target |-> target,
                    field |-> field, err |-> r.err,
                    before |-> FragmentsOf(heap, views[i])]
        /\ UNCHANGED views

\* ... on the fragment it gave as layer j, or on an object in it
AssignFragment(i, j, path, field) ==
    /\ Ready
    /\ i \in DOMAIN views
    /\ views[i].ok
    /\ j \in 1..Len(views[i].layers)
    /\ AssignTo(i, "fragment", PathValue(heap, views[i].layers[j].frag, path), heap, field)

\* ... on what view[key] returned
AssignGot(i, key, field) ==
    /\ Ready
    /\ i \in DOMAIN views
    /\ views[i].ok
    /\ \E r \in {ProxyGet(heap, views[i], key)} :
          r.err = "" /\ AssignTo(i, "get", r.res, r.h, field)

\* ... on the value of an entry of view.__inspect(key).layers
AssignInspected(i, key, e, field) ==
    /\ Ready
    /\ i \in DOMAIN views
    /\ views[i].ok
    /\ \E r \in {__inspect(heap, views[i], key)} :
          e \in 1..Len(r.layers) /\ AssignTo(i, "inspect", r.layers[e].value, heap, field)

\* ... on the value of an entry of view.getAll(key)
AssignCollected(i, key, e, field) ==
    /\ Ready
    /\ i \in DOMAIN views
    /\ views[i].ok
    /\ \E r \in {__getAll(heap, views[i], key)} :
          /\ r.err = ""
          /\ e \in 1..Len(r.results)
          /\ AssignTo(i, "getAll", r.results[e].value, heap, field)

\* a set trap that lets the write through
ProxySetAllows(h, view, key, v) == [h |-> h, ok |-> TRUE]

\* the set trap: set() { return false; }
ProxySet(h, view, key, v) == [h |-> h, ok |-> FALSE]

\* the deleteProperty trap
ProxyDeleteProperty(h, view, key) == [h |-> h, ok |-> FALSE]

\* the defineProperty trap
ProxyDefineProperty(h, view, key) == [h |-> h, ok |-> FALSE]

\* a trap's answer as the strict-mode caller sees it: false raises TypeError
Trapped(i, op, key, r) ==
    /\ heap' = r.h
    /\ last' = [op |-> op, view |-> i, key |-> key,
                err |-> IF r.ok THEN "" ELSE TypeError]
    /\ UNCHANGED views

\* view[key] = 'w'
ViewSet(i, key) ==
    /\ Ready
    /\ i \in DOMAIN views
    /\ views[i].ok
    /\ Trapped(i, "set", key, ProxySet(heap, views[i], key, Str("w")))

\* delete view[key]
ViewDelete(i, key) ==
    /\ Ready
    /\ i \in DOMAIN views
    /\ views[i].ok
    /\ Trapped(i, "delete", key, ProxyDeleteProperty(heap, views[i], key))

\* Object.defineProperty(view, key, {})
ViewDefine(i, key) ==
    /\ Ready
    /\ i \in DOMAIN views
    /\ views[i].ok
    /\ Trapped(i, "define", key, ProxyDefineProperty(heap, views[i], key))

\* typeof key === 'string'
isString(key) == ~key.sym

\* isString(key) ? splitDotExceptDouble(key) : [key]
treeKeyParts(key) ==
    IF isString(key)
    THEN [i \in 1..Len(splitDotExceptDouble(key.s)) |-> Name(splitDotExceptDouble(key.s)[i])]
    ELSE <<key>>

\* a key is parsed, as the one query of a run
Parse(key) ==
    /\ last.op = "none"
    /\ last' = [op |-> "parse", key |-> key, parts |-> treeKeyParts(key)]
    /\ UNCHANGED <<heap, views>>

ViewIds == 1..MaxViews

LayerIds == 1..MaxLayers

\* resolution: one view of up to MaxLayers layers, then a query
NextResolve ==
    \/ \E n \in 0..MaxLayers : \E frags \in Stacks(n) :
         \E p \in ResolvePatches : Create(LayerNames[1], frags, Patches[p])
    \/ \E key \in ResolveKeys : Get(1, key)
    \/ \E key \in ResolveKeys : \E fb \in Fallbacks : Call(1, key, fb)
    \/ \E key \in ResolveKeys : Inspect(1, key)
    \/ \E key \in ResolveKeys : GetAll(1, key)
    \/ OwnKeys(1)

SpecResolve == Init /\ [][NextResolve]_vars

\* derivation: a view, the views derived from it, then a query
Next ==
    \/ \E r \in 1..Len(Roots) : \E names \in 1..Len(LayerNames) : \E p \in RootPatches :
         Create(LayerNames[names], Roots[r], Patches[p])
    \/ \E i \in ViewIds : \E p \in DerivePatches :
         Derive(i, TRUE, NoSource, Undef, Patches[p])
    \/ \E i \in ViewIds : \E name \in DeriveNames : \E f \in DeriveFragments :
         Derive(i, FALSE, name, Fragments[f], NoPatch)
    \/ \E i \in ViewIds : \E name \in DeriveNames : \E f \in DeriveFragments :
         \E p \in DerivePatches : Derive(i, FALSE, name, Fragments[f], Patches[p])
    \/ \E i \in ViewIds : \E key \in DeriveKeys : Get(i, key)
    \/ \E i \in ViewIds : \E key \in DeriveKeys : Call(i, key, Str("fb"))
    \/ \E i \in ViewIds : \E key \in DeriveKeys : Inspect(i, key)
    \/ \E i \in ViewIds : \E key \in DeriveKeys : GetAll(i, key)
    \/ \E i \in ViewIds : OwnKeys(i)

Spec == Init /\ [][Next]_vars

\* options: a view with some options, derivations that patch them or leave
\* them alone, then a read of a key no layer holds
NextOptions ==
    \/ \E p \in 1..Len(Patches) : Create(LayerNames[1], <<1>>, Patches[p])
    \/ \E i \in ViewIds : \E p \in OptionPatches :
         Derive(i, TRUE, NoSource, Undef, Patches[p])
    \/ \E i \in ViewIds : Derive(i, FALSE, Name(<<"feature">>), Fragments[1], NoPatch)
    \/ \E i \in ViewIds : Derive(i, FALSE, Name(<<"feature">>), Fragments[1], Patches[4])
    \/ \E i \in ViewIds : Get(i, <<"n">>)

SpecOptions == Init /\ [][NextOptions]_vars

\* freezing: a view, then the caller assigns to a fragment or to a result
NextFreeze ==
    \/ \E r \in 1..Len(FreezeRoots) : \E p \in FreezePatches :
         Create(LayerNames[1], FreezeRoots[r], Patches[p])
    \/ \E j \in LayerIds : \E path \in AssignedPaths : \E field \in AssignedFields :
         AssignFragment(1, j, path, field)
    \/ \E key \in FreezeKeys : \E field \in AssignedFields : AssignGot(1, key, field)
    \/ \E key \in FreezeKeys : \E e \in LayerIds : \E field \in AssignedFields :
         AssignInspected(1, key, e, field)
    \/ \E key \in FreezeKeys : \E e \in LayerIds : \E field \in AssignedFields :
         AssignCollected(1, key, e, field)
    \/ \E key \in WrittenKeys : ViewSet(1, key)
    \/ \E key \in WrittenKeys : ViewDelete(1, key)
    \/ \E key \in WrittenKeys : ViewDefine(1, key)

SpecFreeze == Init /\ [][NextFreeze]_vars

\* special names: a view whose layers may hold keys named like the view's
\* operations or `then`, then a read in field or call style
NextNames ==
    \/ \E n \in 0..MaxLayers : \E frags \in NameStacks(n) :
         \E p \in ResolvePatches : Create(LayerNames[1], frags, Patches[p])
    \/ \E key \in NameKeys : Get(1, key)
    \/ \E key \in NameKeys : \E fb \in Fallbacks : Call(1, key, fb)

SpecNames == Init /\ [][NextNames]_vars

\* nested arrays: a view over layers holding arrays at a.b, then a read
NextArrays ==
    \/ \E n \in 0..MaxLayers : \E frags \in ArrayStacks(n) :
         \E p \in ResolvePatches : Create(LayerNames[1], frags, Patches[p])
    \/ \E key \in FreezeKeys : Get(1, key)
    \/ \E key \in FreezeKeys : \E fb \in Fallbacks : Call(1, key, fb)
    \/ \E key \in FreezeKeys : GetAll(1, key)

SpecArrays == Init /\ [][NextArrays]_vars

\* enumerated keys: a view, then its keys, a membership test or a read
NextKeys ==
    \/ \E n \in 0..MaxLayers : \E frags \in KeyStacks(n) :
         \E p \in ResolvePatches : Create(LayerNames[1], frags, Patches[p])
    \/ OwnKeys(1)
    \/ \E key \in EnumeratedKeys : Has(1, key)
    \/ \E key \in EnumeratedKeys : Get(1, key)

SpecKeys == Init /\ [][NextKeys]_vars

\* the key path parser on its own
NextParse == \E key \in ParseKeys : Parse(key)

SpecParse == Init /\ [][NextParse]_vars

(***************************************************************************)
(* What the claims speak of: a layer's own value at a path, whether the    *)
(* options accept it, and the latest query                                 *)
(***************************************************************************)
RECURSIVE OwnAt(_, _, _)
\* the value that `cur` holds at the path, through own fields only.  [found, v]
OwnAt(h, cur, parts) ==
    IF parts = <<>> THEN [found |-> TRUE, v |-> cur]
    ELSE IF cur.t = "ref" /\ HasOwn(h[cur.n], Head(parts))
         THEN OwnAt(h, OwnValue(h[cur.n], Head(parts)), Tail(parts))
         ELSE [found |-> FALSE, v |-> Undef]

\* not null unless acceptNull, not undefined unless acceptUndefined
Accepted(v, options) ==
    /\ (v = Null => options.acceptNull)
    /\ (v = Undef => options.acceptUndefined)

\* layer j of the view defines the path
Defines(h, view, j, parts) == OwnAt(h, view.layers[j].frag, parts).found

ValueAt(h, view, j, parts) == OwnAt(h, view.layers[j].frag, parts).v

\* layer j of the view holds an accepted value at the path
Holds(h, view, j, parts) ==
    Defines(h, view, j, parts) /\ Accepted(ValueAt(h, view, j, parts), view.options)

\* the highest-precedence layer holding an accepted value at the path, 0 if none
Highest(h, view, parts) ==
    LET holding == {j \in 1..Len(view.layers) : Holds(h, view, j, parts)}
    IN IF holding = {} THEN 0 ELSE CHOOSE j \in holding : \A k \in holding : k <= j

\* the latest operation is a get, in field, index or call style
IsGet == last.op \in {"get", "call"}

\* the view and the parsed key of the latest query
V == views[last.view]

Parts == splitDotExceptDouble(last.key)

\* what a get returned: the value as a literal, the error, the handler's calls
Outcome(r) == [res |-> Reify(r.h, r.res), err |-> r.err, hkeys |-> r.hkeys]

LastOutcome == [res |-> last.res, err |-> last.err, hkeys |-> last.hkeys]

\* the latest get asked again of another view
Again(h, view) ==
    Outcome(IF last.op = "get" THEN ProxyGet(h, view, last.key)
            ELSE __withFallback(h, view, last.key, last.fallback))

(***************************************************************************)
(* C1                                                                      *)
(***************************************************************************)
\* C1 as stated: a get of a single-segment key returns exactly the value of
\* the highest-precedence layer that holds an accepted own value for it.
C1_HighestLayerValue ==
    (IsGet /\ Len(Parts) = 1 /\ Highest(heap, V, Parts) > 0)
        => /\ last.err = ""
           /\ last.res = Reify(heap, ValueAt(heap, V, Highest(heap, V, Parts), Parts))

\* C1 amended: when the highest-precedence layer that holds an accepted own
\* value for a single-segment key holds one that is not a plain (non-array)
\* object, a get returns exactly that value.  (A plain object there is
\* deep-merged with what the lower layers hold.)
C1_HighestPlainValue ==
    (/\ IsGet
     /\ Len(Parts) = 1
     /\ Highest(heap, V, Parts) > 0
     /\ ~IsPlainObject(heap, ValueAt(heap, V, Highest(heap, V, Parts), Parts)))
        => /\ last.err = ""
           /\ last.res = Reify(heap, ValueAt(heap, V, Highest(heap, V, Parts), Parts))

\* C1 witness: a scalar in the top layer returned over an object held lower
C1_Witness ==
    /\ last.op = "get"
    /\ last.key = A
    /\ Len(V.layers) >= 2
    /\ Highest(heap, V, Parts) = Len(V.layers)
    /\ Holds(heap, V, 1, Parts)
    /\ IsPlainObject(heap, ValueAt(heap, V, 1, Parts))
    /\ last.res = Str("s1")

(***************************************************************************)
(* C2                                                                      *)
(***************************************************************************)
\* C2: when a layer L holds an accepted non-object value at a path of several
\* segments, a get of that path returns what the view without the layers
\* below L returns.
C2_ScalarShadowsLower ==
    (IsGet /\ Len(Parts) >= 2)
        => \A L \in 1..Len(V.layers) :
              (Holds(heap, V, L, Parts) /\ ValueAt(heap, V, L, Parts).t # "ref")
                  => LastOutcome =
                        Again(heap, [V EXCEPT !.layers = SubSeq(V.layers, L, Len(V.layers))])

\* C2 witness: the top layer's scalar at a.b returned over two lower layers
\* that hold objects there
C2_Witness ==
    /\ last.op = "get"
    /\ last.key = <<"a", ".", "b">>
    /\ Len(V.layers) = 3
    /\ Holds(heap, V, 3, Parts)
    /\ ValueAt(heap, V, 3, Parts) = Str("s2")
    /\ IsPlainObject(heap, ValueAt(heap, V, 1, Parts))
    /\ IsPlainObject(heap, ValueAt(heap, V, 2, Parts))
    /\ last.res = Str("s2")

(***************************************************************************)
(* C3                                                                      *)
(***************************************************************************)
\* the layers of the view that hold a plain object at the path
ObjectLayers(h, view, parts) ==
    {j \in 1..Len(view.layers) :
        Holds(h, view, j, parts) /\ IsPlainObject(h, ValueAt(h, view, j, parts))}

\* field k of a literal object, Undef when it has none
LitField(lit, k) ==
    IF \E i \in 1..Len(lit.f) : lit.f[i].k = k
    THEN lit.f[CHOOSE i \in 1..Len(lit.f) : lit.f[i].k = k].v
    ELSE Undef

\* C3: when a path of several segments holds a plain object in two or more
\* layers and an accepted scalar in none, a get returns an object whose every
\* field has the value of the highest-precedence layer whose object defines
\* it (checked for the fields that layer holds with an accepted value).
C3_HigherFieldsWin ==
    (/\ IsGet
     /\ Len(Parts) >= 2
     /\ Cardinality(ObjectLayers(heap, V, Parts)) >= 2
     /\ \A j \in 1..Len(V.layers) :
           Holds(heap, V, j, Parts) => j \in ObjectLayers(heap, V, Parts))
        => /\ last.err = ""
           /\ last.res.t = "obj"
           /\ \A j \in ObjectLayers(heap, V, Parts) :
                LET o == heap[ValueAt(heap, V, j, Parts).n]
                IN \A i \in 1..Len(o.props) :
                     (/\ Accepted(o.props[i].v, V.options)
                      /\ \A k \in ObjectLayers(heap, V, Parts) :
                            (k > j) => ~HasOwn(heap[ValueAt(heap, V, k, Parts).n], o.props[i].k))
                        => LitField(last.res, o.props[i].k) = Reify(heap, o.props[i].v)

(***************************************************************************)
(* C4                                                                      *)
(***************************************************************************)
RECURSIVE SameValue(_, _)
\* two literals are the same value: the same fields, in whatever order
SameValue(a, b) ==
    /\ a.t = b.t /\ a.s = b.s /\ a.n = b.n
    /\ Len(a.f) = Len(b.f)
    /\ \A i \in 1..Len(a.f) :
          \E j \in 1..Len(b.f) : b.f[j].k = a.f[i].k /\ SameValue(a.f[i].v, b.f[j].v)

\* C4: for a path of two segments "a.b", a get of the path returns what
\* reading field b of get("a") returns, whenever the latter is defined.
C4_StylesAgree ==
    (IsGet /\ Len(Parts) = 2)
        => \A flat \in {ProxyGet(heap, V, Parts[1])} :
              (/\ flat.err = ""
               /\ flat.res.t = "ref"
               /\ GetProp(flat.h[flat.res.n], Parts[2]) # Undef)
                  => /\ last.err = ""
                     /\ SameValue(last.res,
                                  Reify(flat.h, GetProp(flat.h[flat.res.n], Parts[2])))

(***************************************************************************)
(* C5                                                                      *)
(***************************************************************************)
\* acceptNull = false and acceptUndefined = false
DefaultAcceptance(view) == ~view.options.acceptNull /\ ~view.options.acceptUndefined

\* layer j holds an explicit null or undefined at the path
HoldsNothing(h, view, j, parts) ==
    Defines(h, view, j, parts) /\ ValueAt(h, view, j, parts) \in {Null, Undef}

\* the heap in which layer j does not define the path: the field is taken
\* out of the object that holds it
Undefine(h, view, j, parts) ==
    LET holder == OwnAt(h, view.layers[j].frag, SubSeq(parts, 1, Len(parts) - 1)).v.n
        Other(p) == p.k # parts[Len(parts)]
    IN [h EXCEPT ![holder].props = SelectSeq(@, Other)]

\* the entries of an inspection that speak of the layer
EntriesOf(result, name) == {i \in 1..Len(result.layers) : result.layers[i].layer = name}

\* the own top-level keys that some layer of the view holds with an accepted value
AcceptedKeys(h, view) ==
    {k \in UNION {{h[view.layers[j].frag.n].props[i].k :
                      i \in 1..Len(h[view.layers[j].frag.n].props)} :
                  j \in 1..Len(view.layers)} :
        \E j \in 1..Len(view.layers) : Holds(h, view, j, <<k>>)}

\* C5: with default options a layer that holds an explicit null or undefined
\* at the key or path asked for is treated as not defining it: a get returns
\* what the view of the same layers without that field returns, inspect
\* reports the layer neither present nor active, getAll has no entry for it,
\* and keys lists exactly the keys some layer holds with an accepted value.
C5_NullTransparent ==
    (last.op \in {"get", "call", "inspect", "getAll", "keys"} /\ DefaultAcceptance(V))
        => /\ IsGet =>
                \A j \in 1..Len(V.layers) :
                    HoldsNothing(heap, V, j, Parts) =>
                        \A c \in {Construct(Undefine(heap, V, j, Parts), V.layers, V.options)} :
                            c.err = "" /\ LastOutcome = Again(c.h, c.view)
           /\ last.op = "inspect" =>
                \A j \in 1..Len(V.layers) :
                    HoldsNothing(heap, V, j, Parts) =>
                        /\ EntriesOf(last.result, V.layers[j].name) # {}
                        /\ \A i \in EntriesOf(last.result, V.layers[j].name) :
                              /\ ~last.result.layers[i].isPresent
                              /\ ~last.result.layers[i].isActive
                              /\ last.result.layers[i].value = Undef
                        /\ last.result.resolved.source # V.layers[j].name
           /\ last.op = "getAll" =>
                \A j \in 1..Len(V.layers) :
                    HoldsNothing(heap, V, j, Parts) =>
                        \A i \in 1..Len(last.results) :
                            last.results[i].layer # V.layers[j].name
           /\ last.op = "keys" =>
                {last.keys[i] : i \in 1..Len(last.keys)} = AcceptedKeys(heap, V)

\* C5 witness: the top layer holds undefined at a.b and the get returns the
\* scalar of the layer below
C5_Witness ==
    /\ last.op = "get"
    /\ last.key = <<"a", ".", "b">>
    /\ DefaultAcceptance(V)
    /\ Len(V.layers) >= 2
    /\ HoldsNothing(heap, V, Len(V.layers), Parts)
    /\ last.res = Str("s2")

(***************************************************************************)
(* C6                                                                      *)
(***************************************************************************)
\* the highest-precedence layer that defines the path, 0 if none
TopDefining(h, view, parts) ==
    LET defining == {j \in 1..Len(view.layers) : Defines(h, view, j, parts)}
    IN IF defining = {} THEN 0 ELSE CHOOSE j \in defining : \A k \in defining : k <= j

\* the highest-precedence layer that defines the path holds a null that
\* acceptNull admits, or an undefined that acceptUndefined admits
TopIsAcceptedNothing(h, view, parts) ==
    /\ TopDefining(h, view, parts) > 0
    /\ LET v == ValueAt(h, view, TopDefining(h, view, parts), parts)
       IN \/ (v = Null /\ view.options.acceptNull)
          \/ (v = Undef /\ view.options.acceptUndefined)

\* C6: when the highest-precedence layer that defines a key holds there a
\* null admitted by acceptNull (an undefined admitted by acceptUndefined), a
\* get returns that null (undefined), and inspect reports that layer present,
\* active and the resolved source, and no other layer active.
C6_AcceptedNothingIsSource ==
    (last.op \in {"get", "call", "inspect"} /\ TopIsAcceptedNothing(heap, V, Parts))
        => LET top == TopDefining(heap, V, Parts)
           IN /\ IsGet =>
                   /\ last.err = ""
                   /\ last.hkeys = <<>>
                   /\ last.res = ValueAt(heap, V, top, Parts)
              /\ last.op = "inspect" =>
                   /\ last.result.resolved.source = V.layers[top].name
                   /\ last.result.resolved.value = ValueAt(heap, V, top, Parts)
                   /\ \A i \in 1..Len(last.result.layers) :
                         IF last.result.layers[i].layer = V.layers[top].name
                         THEN last.result.layers[i].isPresent /\ last.result.layers[i].isActive
                         ELSE ~last.result.layers[i].isActive

(***************************************************************************)
(* C7                                                                      *)
(***************************************************************************)
\* C7: when no layer holds an accepted value for the key and no fallback is
\* given, a get calls the not-found handler once, with the key as asked, and
\* returns what it returns; the default handler raises the key-not-found
\* error for that key.
C7_HandlerGetsRequestedKey ==
    (IsGet /\ last.fallback = Undef /\ Highest(heap, V, Parts) = 0)
        => /\ last.hkeys = <<last.key>>
           /\ IF V.options.notFoundHandler = "default"
              THEN last.err = "KeyNotFound"
              ELSE last.err = "" /\ last.res = HandlerResult

(***************************************************************************)
(* C8                                                                      *)
(***************************************************************************)
\* C8: a call with a fallback other than undefined never calls the not-found
\* handler and raises nothing: it returns the resolved value when some layer
\* holds an accepted value for the key, and the fallback otherwise.
C8_FallbackInsteadOfHandler ==
    (last.op = "call" /\ last.fallback # Undef)
        => /\ last.err = ""
           /\ last.hkeys = <<>>
           /\ IF Highest(heap, V, Parts) = 0
              THEN last.res = last.fallback
              ELSE \A plain \in {Outcome(ProxyGet(heap, V, last.key))} :
                      plain.err = "" => SameValue(last.res, plain.res)

(***************************************************************************)
(* C9                                                                      *)
(***************************************************************************)
\* everything a caller can read of a view: its layers' names, order and
\* fragments, its options, and the results of get, inspect, getAll and keys
Observe(h, view) ==
    [names |-> [j \in 1..Len(view.layers) |-> view.layers[j].name],
     fragments |-> [j \in 1..Len(view.layers) |-> Reify(h, view.layers[j].frag)],
     options |-> view.options,
     get |-> [k \in DeriveKeys |-> Outcome(ProxyGet(h, view, k))],
     inspect |-> [k \in DeriveKeys |-> InspectResult(h, __inspect(h, view, k))],
     getAll |-> [k \in DeriveKeys |->
                   Only({ [err |-> r.err,
                           results |-> [i \in 1..Len(r.results) |->
                                          [layer |-> r.results[i].layer,
                                           value |-> Reify(h, r.results[i].value)]]]
                          : r \in {__getAll(h, view, k)} })],
     keys |-> ProxyOwnKeys(h, view)]

\* C9: no step (a derive in particular) changes what can be read of a view
\* that exists: its gets, inspections, getAlls and keys, its layer names,
\* order and fragments, and its options stay as they are.
C9_DeriveLeavesViews ==
    [][\A i \in DOMAIN views :
          views[i].ok => Observe(heap', views'[i]) = Observe(heap, views[i])]_vars

(***************************************************************************)
(* C10                                                                     *)
(***************************************************************************)
\* C10: a derive with a name no layer of the source has yields a view whose
\* layers are the source's, in their order, followed by the new layer.
C10_NewLayerOnTop ==
    (/\ last.op = "derive"
     /\ ~last.isOpts
     /\ last.err = ""
     /\ \A j \in 1..Len(views[last.src].layers) :
           views[last.src].layers[j].name # last.name)
        => views[last.new].layers =
              Append(views[last.src].layers, [name |-> last.name, frag |-> last.layer])

(***************************************************************************)
(* C11                                                                     *)
(***************************************************************************)
\* the latest operation is a derive that returned a view
Derived == last.op = "derive" /\ last.err = ""

\* the positions of the layers of that name
Positions(layers, name) == {j \in 1..Len(layers) : layers[j].name = name}

\* C11: a derive with the name of a layer of the source yields the source's
\* layers, in their order, with that layer's fragment replaced by the given
\* one: the layer keeps its position and nothing of its old fragment remains.
C11_ReplacedInPlace ==
    (Derived /\ ~last.isOpts /\ Positions(views[last.src].layers, last.name) # {})
        => \A j \in Positions(views[last.src].layers, last.name) :
              views[last.new].layers =
                 [views[last.src].layers EXCEPT ![j].frag = last.layer]

(***************************************************************************)
(* C12                                                                     *)
(***************************************************************************)
\* the layers not of that name, in their order
Others(layers, name) ==
    LET Keep(e) == e.name # name
    IN SelectSeq(layers, Keep)

\* C12: a derive carries over every layer of the source other than the one it
\* names, with its name and fragment, in the same relative order.
C12_LayersCarriedOver ==
    Derived => Others(views[last.new].layers, last.name)
                  = Others(views[last.src].layers, last.name)

(***************************************************************************)
(* C13                                                                     *)
(***************************************************************************)
OptionNames == {"notFoundHandler", "freeze", "acceptNull", "acceptUndefined"}

\* C13: the options of a derived view are the source's, with the fields the
\* patch names set to the patch's values and every other field inherited;
\* a derive without a patch inherits them all.
C13_OptionsInherited ==
    Derived =>
        /\ DOMAIN views[last.new].options = OptionNames
        /\ \A o \in OptionNames :
              views[last.new].options[o] =
                 IF o \in DOMAIN last.patch THEN last.patch[o]
                 ELSE views[last.src].options[o]

\* a chain: a view without freezing, a view derived from it with a handler of
\* its own, and a view derived from that with a layer and no patch, which
\* has both
C13_Witness ==
    /\ Derived
    /\ last.src = 2
    /\ ~last.isOpts
    /\ last.patch = NoPatch
    /\ ~views[1].options.freeze
    /\ views[1].options.notFoundHandler = "default"
    /\ views[2].options.notFoundHandler = "custom"
    /\ ~views[3].options.freeze
    /\ views[3].options.notFoundHandler = "custom"

(***************************************************************************)
(* C14                                                                     *)
(***************************************************************************)
\* the entries of the latest inspection, highest precedence first
Entries == last.result.layers

ActiveEntries == {i \in 1..Len(Entries) : Entries[i].isActive}

PresentEntries == {i \in 1..Len(Entries) : Entries[i].isPresent}

\* C14: an inspection marks at most one layer active; the active layer is
\* the highest-precedence present layer, and resolved carries its name and
\* its value.
C14_OneActiveLayer ==
    last.op = "inspect" =>
        /\ Cardinality(ActiveEntries) <= 1
        /\ \A i \in ActiveEntries :
              /\ i \in PresentEntries
              /\ \A k \in PresentEntries : i <= k
              /\ last.result.resolved.source = Entries[i].layer
              /\ last.result.resolved.value = Entries[i].value

(***************************************************************************)
(* C15                                                                     *)
(***************************************************************************)
\* the layer of the view that the i-th entry of an inspection is about, when
\* the entries run from the highest precedence to the lowest
LayerOf(i) == Len(V.layers) - i + 1

\* C15: an inspection has one entry per layer of the view, highest precedence
\* first; a layer that does not define the key is not present, not active
\* and has the value undefined; when no layer defines the key, resolved is
\* {value: undefined, source: ''}.
C15_EntryPerLayer ==
    last.op = "inspect" =>
        /\ Len(Entries) = Len(V.layers)
        /\ \A i \in 1..Len(Entries) :
              /\ Entries[i].layer = V.layers[LayerOf(i)].name
              /\ ~Defines(heap, V, LayerOf(i), Parts) =>
                    /\ ~Entries[i].isPresent
                    /\ ~Entries[i].isActive
                    /\ Entries[i].value = Undef
        /\ (\A j \in 1..Len(V.layers) : ~Defines(heap, V, j, Parts)) =>
              last.result.resolved = [value |-> Undef, source |-> NoSource]

(***************************************************************************)
(* C16                                                                     *)
(***************************************************************************)
\* the layers of the view holding that accepted value at the path
Suppliers(h, view, parts, value) ==
    {j \in 1..Len(view.layers) :
        Holds(h, view, j, parts) /\ Reify(h, ValueAt(h, view, j, parts)) = value}

\* the latest get returned a non-object value that a layer supplies
GotLayerScalar ==
    /\ IsGet
    /\ last.err = ""
    /\ last.hkeys = <<>>
    /\ last.res.t \notin {"obj", "arr"}
    /\ Suppliers(heap, V, Parts, last.res) # {}

\* C16: when a get returns a non-object value supplied by a layer, the
\* inspection of the same key resolves to the same value and names a layer
\* holding that value at the key as its source.
C16_InspectAgreesWithGet ==
    GotLayerScalar =>
        \A r \in {InspectResult(heap, __inspect(heap, V, last.key))} :
            /\ r.resolved.value = last.res
            /\ \E j \in Suppliers(heap, V, Parts, last.res) :
                  V.layers[j].name = r.resolved.source

(***************************************************************************)
(* C17                                                                     *)
(***************************************************************************)
\* one {layer, value} entry for each layer holding an accepted value at the
\* path, highest precedence first, the value as that layer holds it
OwnEntries(h, view, parts) ==
    LET n == Len(view.layers)
        down == [i \in 1..n |-> n - i + 1]
        Keep(j) == Holds(h, view, j, parts)
        kept == SelectSeq(down, Keep)
    IN [i \in 1..Len(kept) |->
          [layer |-> view.layers[kept[i]].name,
           value |-> Reify(h, ValueAt(h, view, kept[i], parts))]]

\* C17: getAll raises nothing and returns, highest precedence first, one
\* entry for each layer in which the path resolves to an accepted value, with
\* that layer's own value, and no entry for any other layer.
C17_EntryPerHoldingLayer ==
    last.op = "getAll" =>
        /\ last.err = ""
        /\ last.results = OwnEntries(heap, V, Parts)

(***************************************************************************)
(* C18                                                                     *)
(***************************************************************************)
\* the lowest-precedence layer holding an accepted value for the key
FirstLayer(h, view, k) ==
    CHOOSE j \in 1..Len(view.layers) :
        /\ Holds(h, view, j, <<k>>)
        /\ \A i \in 1..(j - 1) : ~Holds(h, view, i, <<k>>)

\* where the layer's object lists the key among its own keys
PlaceIn(o, k) == CHOOSE i \in 1..Len(EnumKeys(o)) : EnumKeys(o)[i] = k

\* the key k1 is seen before k2 when the layers are scanned from the lowest
\* precedence to the highest, each layer's keys in its own order
SeenBefore(h, view, k1, k2) ==
    LET j1 == FirstLayer(h, view, k1)
        j2 == FirstLayer(h, view, k2)
    IN \/ j1 < j2
       \/ /\ j1 = j2
          /\ PlaceIn(h[view.layers[j1].frag.n], k1) < PlaceIn(h[view.layers[j1].frag.n], k2)

\* C18: the keys of a view are the top-level own keys that some layer holds
\* with an accepted value, each once, in the order in which a scan of the
\* layers from the lowest precedence to the highest first sees them.
C18_KeysFirstSeen ==
    last.op = "keys" =>
        /\ {last.keys[i] : i \in 1..Len(last.keys)} = AcceptedKeys(heap, V)
        /\ \A i, j \in 1..Len(last.keys) :
              i < j => /\ last.keys[i] # last.keys[j]
                       /\ SeenBefore(heap, V, last.keys[i], last.keys[j])

\* two layers hold the key a, the lowest holds a.b besides a null that is not
\* accepted: a.b is seen first and a is listed once
C18_Witness ==
    /\ last.op = "keys"
    /\ Len(V.layers) = 3
    /\ last.keys = << <<"a", ".", "b">>, A >>
    /\ ~Holds(heap, V, 1, <<A>>)
    /\ Holds(heap, V, 2, <<A>>)
    /\ Holds(heap, V, 3, <<A>>)

(***************************************************************************)
(* C19                                                                     *)
(***************************************************************************)
\* the objects of the view's fragments
FragmentObjects(h, view) ==
    UNION {Reach(h, view.layers[j].frag) : j \in 1..Len(view.layers)}

\* C19: with freeze on, an assignment to a field of an object of a layer's
\* fragment, reached through the caller's reference or through a result of
\* get, inspect or getAll, raises an error and leaves the fragments as they
\* were.
C19_FragmentsFrozen ==
    (/\ last.op = "assign"
     /\ V.options.freeze
     /\ last.target.t = "ref"
     /\ last.target.n \in FragmentObjects(heap, V))
        => /\ last.err # ""
           /\ FragmentsOf(heap, V) = last.before

(***************************************************************************)
(* C20                                                                     *)
(***************************************************************************)
\* C20: with freeze on, every object and array reachable from the flattened
\* snapshot of a view is frozen.
C20_SnapshotDeepFrozen ==
    \A i \in DOMAIN views :
        (views[i].ok /\ views[i].options.freeze)
            => \A a \in Reach(heap, views[i].flattened) : heap[a].frozen

(***************************************************************************)
(* C21                                                                     *)
(***************************************************************************)
ViewWrites == {"set", "delete", "define"}

\* C21: a step that assigns to, deletes or defines a property of a view
\* raises an error, whatever the freeze option, and changes nothing that can
\* be read of any view.
C21_ViewRejectsWrites ==
    [][last'.op \in ViewWrites =>
          /\ last'.err # ""
          /\ views' = views
          /\ \A i \in DOMAIN views :
                views[i].ok => Observe(heap', views'[i]) = Observe(heap, views[i])]_vars

\* each of the three, on a view that freezes and on one that does not
C21_Witness ==
    /\ last.op \in ViewWrites
    /\ last.key = A
    /\ ~V.options.freeze
    /\ last.err # ""

(***************************************************************************)
(* C22                                                                     *)
(***************************************************************************)
\* the value the highest-precedence holding layer has at the latest key
TopValue == Reify(heap, ValueAt(heap, V, Highest(heap, V, Parts), Parts))

\* C22: a read of __inspect, __derive or getAll in field or index style
\* returns the operation, whatever the layers hold under that name; a call
\* with the same key returns the value the layers hold.
C22_ReservedNamesShadow ==
    /\ (last.op = "get" /\ last.key \in ReservedNames)
          => /\ last.res = Fn(last.key[1])
             /\ last.err = ""
             /\ last.hkeys = <<>>
    /\ (last.op = "call" /\ last.key \in ReservedNames /\ Highest(heap, V, Parts) > 0)
          => /\ last.res = TopValue
             /\ last.err = ""
             /\ last.hkeys = <<>>

\* a layer holds a key named getAll: the field read gives the operation
C22_Witness ==
    /\ last.op = "get"
    /\ last.key = <<"getAll">>
    /\ Highest(heap, V, Parts) > 0
    /\ last.res = Fn("getAll")

(***************************************************************************)
(* C23                                                                     *)
(***************************************************************************)
\* C23: a read of `then` in field style returns undefined, and calls no
\* handler, when no layer holds an accepted value for it; otherwise it
\* returns the value of the highest-precedence layer holding one.
C23_ThenIsQuiet ==
    (last.op = "get" /\ last.key = <<"then">>)
        => /\ last.err = ""
           /\ last.hkeys = <<>>
           /\ last.res = IF Highest(heap, V, Parts) = 0 THEN Undef ELSE TopValue

\* the only layer naming `then` holds a null that is not accepted
C23_Witness ==
    /\ last.op = "get"
    /\ last.key = <<"then">>
    /\ Highest(heap, V, Parts) = 0
    /\ \E j \in 1..Len(V.layers) : Defines(heap, V, j, Parts)
    /\ V.options.notFoundHandler = "default"
    /\ last.res = Undef

(***************************************************************************)
(* C24                                                                     *)
(***************************************************************************)
\* the places of the dots of str that have no dot next to them, ascending
LoneDots(str) ==
    LET Lone(i) == /\ str[i] = "."
                   /\ (i = 1 \/ str[i - 1] # ".")
                   /\ (i = Len(str) \/ str[i + 1] # ".")
    IN SelectSeq([i \in 1..Len(str) |-> i], Lone)

\* what lies between the (k-1)-th and the k-th lone dot of str
Between(str, k) ==
    LET dots == LoneDots(str)
        from == IF k = 1 THEN 1 ELSE dots[k - 1] + 1
        to == IF k > Len(dots) THEN Len(str) ELSE dots[k] - 1
    IN SubSeq(str, from, to)

RECURSIVE Escaped(_)
\* the segment with every maximal run of dots one dot longer
Escaped(seg) ==
    IF seg = <<>> THEN <<>>
    ELSE IF Head(seg) # "." THEN <<Head(seg)>> \o Escaped(Tail(seg))
    ELSE LET RECURSIVE Run(_)
             Run(t) == IF t # <<>> /\ Head(t) = "." THEN 1 + Run(Tail(t)) ELSE 0
             n == Run(seg)
         IN <<".">> \o SubSeq(seg, 1, n) \o Escaped(SubSeq(seg, n + 1, Len(seg)))

\* the parses the documentation lists
ParseExamples ==
    [key \in DocumentedKeys |->
        CASE key = <<"a", ".", "b", ".", "c">> -> << <<"a">>, <<"b">>, <<"c">> >>
          [] key = <<"a", ".", ".", "b", ".", "c">> -> << <<"a", ".", "b">>, <<"c">> >>
          [] key = <<"a", ".", ".", ".", "b", ".", "c">> -> << <<"a", ".", ".", "b">>, <<"c">> >>
          [] key = <<>> -> << <<>> >>
          [] key = <<".", "a", ".", "b">> -> << <<>>, <<"a">>, <<"b">> >>
          [] key = <<"a", ".", "b", ".">> -> << <<"a">>, <<"b">>, <<>> >>
          [] key = <<".", ".">> -> << <<".">> >>]

\* C24: the parser cuts a string key at exactly the dots that have no dot
\* next to them, so it returns one segment more than there are such dots;
\* each segment is the text between two cuts with every run of N >= 2 dots
\* shortened to N-1; a key that is not a string is its own single segment.
C24_ParserCutsAtLoneDots ==
    last.op = "parse" =>
       IF last.key.sym THEN last.parts = <<last.key>>
       ELSE /\ Len(last.parts) = Len(LoneDots(last.key.s)) + 1
            /\ \A k \in 1..Len(last.parts) :
                  /\ ~last.parts[k].sym
                  /\ Escaped(last.parts[k].s) = Between(last.key.s, k)
            /\ last.key.s \in DocumentedKeys =>
                  last.parts = [k \in 1..Len(ParseExamples[last.key.s]) |->
                                   Name(ParseExamples[last.key.s][k])]

\* "a..b.c" gives the segments a.b and c
C24_Witness ==
    /\ last.op = "parse"
    /\ last.key = Name(<<"a", ".", ".", "b", ".", "c">>)
    /\ last.parts = <<Name(<<"a", ".", "b">>), Name(<<"c">>)>>

(***************************************************************************)
(* C27                                                                     *)
(***************************************************************************)
\* a value that is neither null, undefined nor an object
IsScalar(v) == v.t # "ref" /\ v # Null /\ v # Undef

\* the layers of the view below layer j that hold an accepted value at the key
HoldersBelow(h, view, j, parts) == {i \in 1..(j - 1) : Holds(h, view, i, parts)}

\* layer j holds a plain object at the key and is the highest layer holding
\* anything there, and the layers below hold scalars or arrays there
ObjectOverOthers(h, view, j, parts) ==
    /\ j = Highest(h, view, parts)
    /\ j > 1
    /\ IsPlainObject(h, ValueAt(h, view, j, parts))
    /\ HoldersBelow(h, view, j, parts) # {}
    /\ \A i \in HoldersBelow(h, view, j, parts) :
          ~IsPlainObject(h, ValueAt(h, view, i, parts))

\* C27: creating and deriving a view never raise, and when the highest layer
\* holding a key holds a plain object there while the layers below hold scalars
\* or arrays, a get of that single-segment key returns that layer's object.
C27_MergeNeverRaises ==
    /\ last.op \in {"create", "derive"} => last.err = ""
    /\ (IsGet /\ Len(Parts) = 1) =>
          \A j \in 1..Len(V.layers) :
             ObjectOverOthers(heap, V, j, Parts)
                => /\ last.err = ""
                   /\ SameValue(last.res, Reify(heap, ValueAt(heap, V, j, Parts)))

(***************************************************************************)
(* C25                                                                     *)
(***************************************************************************)
\* the literal object with field k set to v: in place when it has the field
WithField(lit, k, v) ==
    IF \E i \in 1..Len(lit.f) : lit.f[i].k = k
    THEN [lit EXCEPT !.f = [i \in 1..Len(lit.f) |->
                               IF lit.f[i].k = k THEN [k |-> k, v |-> v] ELSE lit.f[i]]]
    ELSE [lit EXCEPT !.f = Append(@, [k |-> k, v |-> v])]

EmptyLiteral == [t |-> "obj", s |-> "", n |-> 0, f |-> <<>>]

RECURSIVE FoldFields(_, _, _)
\* the accumulator after the fields are folded into it: a plain object is
\* merged into the accumulator's plain object (a new one when it holds none),
\* anything else replaces what the accumulator holds, a null or undefined
\* that is not accepted is skipped
FoldFields(acc, fields, options) ==
    IF fields = <<>> THEN acc
    ELSE Only({
        IF ~Accepted(fd.v, options) THEN FoldFields(acc, Tail(fields), options)
        ELSE IF fd.v.t = "obj"
        THEN FoldFields(WithField(acc, fd.k,
                            FoldFields(IF LitField(acc, fd.k).t = "obj"
                                       THEN LitField(acc, fd.k) ELSE EmptyLiteral,
                                       fd.v.f, options)),
                        Tail(fields), options)
        ELSE FoldFields(WithField(acc, fd.k, fd.v), Tail(fields), options)
        : fd \in {Head(fields)} })

RECURSIVE FoldLayers(_, _, _, _)
\* the fold of the fragments of layers j.. of the view, lowest first
FoldLayers(h, view, j, acc) ==
    IF j > Len(view.layers) THEN acc
    ELSE FoldLayers(h, view, j + 1,
                    FoldFields(acc, Reify(h, view.layers[j].frag).f, view.options))

\* C25: a get of a single-segment key that the fold of the layers defines
\* returns the fold's value for it: plain objects merged field by field,
\* arrays and scalars replacing what was there, nulls and undefineds skipped
\* unless accepted.
C25_SnapshotIsFold ==
    (/\ IsGet
     /\ Len(Parts) = 1
     /\ Parts[1] \notin ReservedNames
     /\ LitField(FoldLayers(heap, V, 1, EmptyLiteral), Parts[1]) # Undef)
        => /\ last.err = ""
           /\ SameValue(last.res, LitField(FoldLayers(heap, V, 1, EmptyLiteral), Parts[1]))

(***************************************************************************)
(* C26                                                                     *)
(***************************************************************************)
\* C26: no creation, derivation or query adds, changes or removes a field of
\* a fragment of a view that exists, or of an object or array nested in one.
C26_FragmentsUntouched ==
    [][\A i \in DOMAIN views :
          views[i].ok => FragmentsOf(heap', views[i]) = FragmentsOf(heap, views[i])]_vars

(***************************************************************************)
(* C28                                                                     *)
(***************************************************************************)
\* layer j holds a string, number or boolean at an intermediate segment of
\* the path
PrimitiveOnTheWay(h, view, j, parts) ==
    \E n \in 1..(Len(parts) - 1) :
       /\ Defines(h, view, j, SubSeq(parts, 1, n))
       /\ ValueAt(h, view, j, SubSeq(parts, 1, n)).t \in {"str", "num", "bool"}

\* the view without its layer j
WithoutLayer(view, j) ==
    [view EXCEPT !.layers = SubSeq(@, 1, j - 1) \o SubSeq(@, j + 1, Len(@))]

\* C28: a layer that holds a string, number or boolean at an intermediate
\* segment of a path of several segments does not define the path: a get
\* returns what it returns without that layer and raises nothing but the
\* handler's key-not-found, getAll raises nothing and has no entry for the
\* layer, and inspect reports the layer not present.
C28_PrimitiveOnTheWay ==
    (last.op \in {"get", "call", "getAll", "inspect"} /\ Len(Parts) >= 2)
        => \A j \in 1..Len(V.layers) :
              PrimitiveOnTheWay(heap, V, j, Parts) =>
                 /\ IsGet => /\ last.err \in {"", "KeyNotFound"}
                             /\ LastOutcome = Again(heap, WithoutLayer(V, j))
                 /\ last.op = "getAll" =>
                       /\ last.err = ""
                       /\ \A i \in 1..Len(last.results) :
                             last.results[i].layer # V.layers[j].name
                 /\ last.op = "inspect" =>
                       \A i \in EntriesOf(last.result, V.layers[j].name) :
                          ~last.result.layers[i].isPresent

(***************************************************************************)
(* C29                                                                     *)
(***************************************************************************)
\* C29: when the highest layer holding an accepted value at a path of several
\* segments holds an array there, a get of the path returns that array: an
\* array with the same elements in the same order.
C29_TopArrayReturned ==
    (/\ IsGet
     /\ Len(Parts) >= 2
     /\ Highest(heap, V, Parts) > 0
     /\ ValueAt(heap, V, Highest(heap, V, Parts), Parts).t = "ref"
     /\ heap[ValueAt(heap, V, Highest(heap, V, Parts), Parts).n].kind = "arr")
        => /\ last.err = ""
           /\ last.res = Reify(heap, ValueAt(heap, V, Highest(heap, V, Parts), Parts))

(***************************************************************************)
(* C30                                                                     *)
(***************************************************************************)
\* the key is one the view's key enumeration lists
Listed(h, view, key) ==
    \E i \in 1..Len(ProxyOwnKeys(h, view)) : ProxyOwnKeys(h, view)[i] = key

\* C30: for a key that the view's key enumeration lists, `key in view` is
\* true, and a get of the key raises nothing, does not call the not-found
\* handler, and returns the value of the highest layer holding the key when
\* that value is not an object.
C30_ListedKeysResolve ==
    ((last.op \in {"has", "get"}) /\ Listed(heap, V, last.key))
        => /\ last.err = ""
           /\ last.op = "has" => last.res
           /\ last.op = "get" =>
                 /\ last.hkeys = <<>>
                 /\ \A j \in {Highest(heap, V, <<last.key>>)} :
                       (j > 0 /\ ValueAt(heap, V, j, <<last.key>>).t # "ref")
                          => last.res = ValueAt(heap, V, j, <<last.key>>)
====
